---- MODULE Spec2Model ----
(***************************************************************************)
(* Model of sync_garmin.py: one run of main() is a sequence of steps       *)
(* (configuration check, Garmin login and gear catalog, activity fetch and *)
(* filter, spreadsheet connection, read of the existing rows, one step per *)
(* running activity, final report).  Runs follow one another; the sheet    *)
(* and the upstream activity list outlive a run, everything else is local  *)
(* to it.                                                                  *)
(*                                                                         *)
(* Python values are records [t, v]: t is the Python type, v the text that *)
(* str() gives.  5 and "5" are different values with the same text.        *)
(*                                                                         *)
(* The sheet is modelled with its header row present (the code skips row 1 *)
(* of get_all_values()); `sheet` holds the data rows after the header.     *)
(* Of the 14 columns of a row the sheet keeps activity_id and              *)
(* activity_type; the rows handed to append_row (`appended`) keep          *)
(* shoe_name and shoe_id as well.                                          *)
(***************************************************************************)
EXTENDS Integers, Sequences, FiniteSets, TLC

\* Bounds of the model
MaxId       == 2   \* activity ids are 1..MaxId
MaxActs     == 3   \* length of the upstream activity list
MaxRuns     == 2   \* number of runs of main() in a behaviour
MaxInitRows == 1   \* data rows in the sheet before the first run
MaxProbes   == 1   \* candidate upstream operations that exist on the client

\* garmin.get_activities(0, 20)
FetchLimit == 20

Min(a, b) == IF a < b THEN a ELSE b

(***************************************************************************)
(* Python values                                                           *)
(***************************************************************************)
PyInt(n)  == [t |-> "int", v |-> ToString(n)]
PyText(s) == [t |-> "str", v |-> s]
PyNone    == [t |-> "none", v |-> "None"]
Missing   == [t |-> "missing", v |-> ""]     \* the dict has no such key

\* dict.get(key, default)
DictGet(val, default) == IF val.t = "missing" THEN default ELSE val

\* str(x)
str(x) == PyText(x.v)

\* bool(x)
Truthy(x) ==
    CASE x.t = "none" -> FALSE
      [] x.t = "int"  -> x.v # "0"
      [] OTHER        -> x.v # ""

DigitTexts == {ToString(n) : n \in 0..(MaxId + 1)}

\* int(x) raises TypeError for None and ValueError for a non-numeric string
IntRaises(x) == ~(x.t = "int" \/ (x.t = "str" /\ x.v \in DigitTexts))

(***************************************************************************)
(* Upstream activities                                                     *)
(***************************************************************************)
TypeKeys == {"Trail_Running", "cycling"}

IdValues == {Missing, PyNone} \cup {PyInt(n) : n \in 1..MaxId}

\* Every id with a running type; the other types, which the filter drops
\* before any id is looked at, with one id only.
Activities ==
    [activityId : IdValues, typeKey : {"Trail_Running"}] \cup
    [activityId : {PyInt(1)}, typeKey : TypeKeys]

\* str.lower() on the type keys of the model
Lower(s) == IF s = "Trail_Running" THEN "trail_running" ELSE s

RunningTypes == {"running", "track_running", "treadmill_running", "trail_running"}

is_running(a) == Lower(a.typeKey) \in RunningTypes

RECURSIVE Filter(_)
Filter(s) ==
    IF s = <<>> THEN <<>>
    ELSE IF is_running(Head(s)) THEN <<Head(s)>> \o Filter(Tail(s))
    ELSE Filter(Tail(s))

SeqsUpTo(S, n) == UNION {[1..k -> S] : k \in 0..n}

(***************************************************************************)
(* Gear subsystem                                                          *)
(***************************************************************************)
ProfileNumber == 7     \* the numeric profile id the account answers with

\* What one candidate profile operation answers: it raises, or returns a
\* non-dict, a dict with the number under a top-level key (as int or as a
\* digit string), a dict with the number one level down, or a dict without.
ProbeResults == {"raise", "notdict", "top", "digits", "nested", "nokey"}

\* extract_number: the number found in one payload, 0 standing for None
extract_number(res) ==
    IF res \in {"top", "digits", "nested"} THEN ProfileNumber ELSE 0

RECURSIVE FirstNumber(_)
FirstNumber(probes) ==
    IF probes = <<>> THEN 0
    ELSE IF Head(probes) # "raise" /\ extract_number(Head(probes)) # 0
         THEN extract_number(Head(probes))
         ELSE FirstNumber(Tail(probes))

\* get_user_profile_number: probes are the answers of the candidate
\* operations the client has, in candidate order; attr is the cached
\* attribute of the client (0: none).  Raises RuntimeError when neither
\* yields a number.
get_user_profile_number(probes, attr) ==
    LET n == FirstNumber(probes) IN
    IF n # 0 THEN [raised |-> FALSE, n |-> n]
    ELSE IF attr # 0 THEN [raised |-> FALSE, n |-> attr]
    ELSE [raised |-> TRUE, n |-> 0]

GearIds   == {"", "42"}
GearNames == {"", "Shoe A"}

\* The account's gear catalog: one shoe
Catalog == <<[gid |-> "42", name |-> "Shoe A"]>>

\* Answers of garmin.get_gear: the call raises, or returns the catalog as a
\* list or as a dict holding the list under "gearList".
GearResponses ==
    {[raised |-> TRUE, shape |-> "list", items |-> <<>>]} \cup
    [raised : {FALSE}, shape : {"list", "gearList"}, items : {Catalog}]

MapPut(m, k, val) == [x \in DOMAIN m \cup {k} |-> IF x = k THEN val ELSE m[x]]

RECURSIVE GearFold(_, _)
GearFold(m, items) ==
    IF items = <<>> THEN m
    ELSE GearFold(IF Head(items).gid # "" THEN MapPut(m, Head(items).gid, Head(items).name)
                  ELSE m,
                  Tail(items))

\* build_gear_map: gearId -> name; the exception of get_gear propagates
build_gear_map(gears) ==
    IF gears.raised THEN [raised |-> TRUE, map |-> <<>>]
    ELSE [raised |-> FALSE,
          map |-> GearFold(<<>>, IF gears.shape = "nokeys" THEN <<>> ELSE gears.items)]

RECURSIVE Join(_)
Join(xs) ==
    IF xs = <<>> THEN ""
    ELSE IF Len(xs) = 1 THEN xs[1]
    ELSE xs[1] \o ", " \o Join(Tail(xs))

RECURSIVE Select(_, _)
Select(xs, S) ==
    IF xs = <<>> THEN <<>>
    ELSE IF Head(xs) \in S THEN <<Head(xs)>> \o Select(Tail(xs), S)
    ELSE Select(Tail(xs), S)

\* Answers of garmin.get_activity_gear
ActivityGearResponses ==
    {[raised |-> TRUE, shape |-> "list", items |-> <<>>]} \cup
    [raised : {FALSE}, shape : {"list", "gear", "nokeys"}, items : {<<[gid |-> "42"]>>}]

MapGet(m, k, default) == IF k \in DOMAIN m THEN m[k] ELSE default

\* A faulty variant of get_shoes_for_activity: no try/except around the call
get_shoes_propagating(ag, gear_map) ==
    [raised |-> ag.raised, names |-> "", ids |-> ""]

\* get_shoes_for_activity: (shoe_names_csv, shoe_ids_csv); a failing call
\* is caught and gives ("", "")
get_shoes_for_activity(ag, gear_map) ==
    IF ag.raised THEN [raised |-> FALSE, names |-> "", ids |-> ""]
    ELSE LET gear_items == IF ag.shape = "nokeys" THEN <<>> ELSE ag.items
             all_ids    == [i \in 1..Len(gear_items) |-> gear_items[i].gid]
             gear_ids   == Select(all_ids, GearIds \ {""})
             shoe_names == [i \in 1..Len(gear_ids) |-> MapGet(gear_map, gear_ids[i], "")]
         IN [raised |-> FALSE,
             names  |-> Join(Select(shoe_names, GearNames \ {""})),
             ids    |-> Join(gear_ids)]

\* main() calls get_activity_detail_for_gear (line 292) and
\* extract_shoe_from_detail (line 297); sync_garmin.py does not define them.
\* They are modelled after the written design of the gear resolver: the
\* first returns a payload or {} and never raises, the second never raises.
\*
\* Activity-detail payloads: a gear list under a known key (listKey, items)
\* and the flat summary fields gearName / gearId.
GearListKeys == {"gear", "activityGearDTOs", "activityGear", "gears", "activityGearList"}

EmptyDetail == [listKey |-> "", items |-> <<>>, gearName |-> "", gearId |-> ""]

DetailPayloads ==
    { EmptyDetail,
      [listKey |-> "gear", items |-> <<[name |-> "Shoe A", id |-> "42"]>>,
       gearName |-> "", gearId |-> ""],
      [listKey |-> "", items |-> <<>>, gearName |-> "Shoe A", gearId |-> "42"] }

\* One detail probe: the operation raises, or answers a payload
DetailProbes ==
    {[raised |-> TRUE, payload |-> EmptyDetail]} \cup
    [raised : {FALSE}, payload : DetailPayloads]

\* get_activity_detail_for_gear: the first candidate that answers; {} when
\* none exists or all raise.  Never raises.
RECURSIVE get_activity_detail_for_gear(_)
get_activity_detail_for_gear(probes) ==
    IF probes = <<>> THEN EmptyDetail
    ELSE IF ~Head(probes).raised THEN Head(probes).payload
    ELSE get_activity_detail_for_gear(Tail(probes))

\* extract_shoe_from_detail: first element of the gear list, else the flat
\* fields, else ("", "")
extract_shoe_from_detail(detail) ==
    IF detail.listKey \in GearListKeys
    THEN IF detail.items # <<>>
         THEN <<detail.items[1].name, detail.items[1].id>>
         ELSE <<"", "">>
    ELSE <<detail.gearName, detail.gearId>>

(***************************************************************************)
(* Dedup / append engine                                                   *)
(***************************************************************************)
\* A data row of the sheet, as text cells
SheetRow(c1, ty) == [c1 |-> c1, activity_type |-> ty]

\* A faulty variant of CellText: a number is shown with a decimal part
CellTextDecimal(x) ==
    IF x.t = "none" THEN "" ELSE IF x.t = "int" THEN x.v \o ".0" ELSE x.v

\* The text a cell shows for an appended value
CellText(x) == IF x.t = "none" THEN "" ELSE x.v

\* sheet.append_row(row)
append_row(rows, row) ==
    Append(rows, SheetRow(CellText(row.activity_id), row.activity_type))

\* sheet.get_all_values()[1:] : every cell comes back as a string
get_all_values(rows) == rows

\* A faulty variant of ExistingIds: the rows are taken from the third row on
ExistingIdsOffByOne(rows, ok) ==
    IF ok THEN {PyText(rows[i].c1) : i \in {j \in 2..Len(rows) : rows[j].c1 # ""}}
    ELSE {}

\* Lines 246-257: the ids of column 1 of the rows after the header; the
\* empty set when the read fails
ExistingIds(rows, ok) ==
    IF ok THEN {PyText(get_all_values(rows)[i].c1) :
                   i \in {j \in 1..Len(rows) : get_all_values(rows)[j].c1 # ""}}
    ELSE {}

\* Line 263: the id the loop checks
CheckedId(a) == str(DictGet(a.activityId, PyText("")))

\* A faulty variant of AlreadyKnown: the raw id is looked up, not its text
AlreadyKnownRaw(a, known) == DictGet(a.activityId, PyNone) \in known

\* Line 269
AlreadyKnown(a, known) == CheckedId(a) \in known

\* Line 289: the id put in the row and, at line 321, in the known set
RowId(a) == DictGet(a.activityId, PyNone)

\* Line 321
Remember(known, activity_id) == known \cup {activity_id}

\* Lines 162-173: the configuration check, with the credentials.json fallback
\* credentials.json is looked at only when GOOGLE_CREDENTIALS is not set
Envs ==
    [email : BOOLEAN, password : BOOLEAN, creds : {TRUE},
     file : {"absent"}, sheet_id : BOOLEAN] \cup
    [email : BOOLEAN, password : BOOLEAN, creds : {FALSE},
     file : {"absent", "empty", "json"}, sheet_id : BOOLEAN]

google_creds_json(e) == e.creds \/ (~e.creds /\ e.file = "json")

\* A faulty variant of Configured: the sheet id is not checked
ConfiguredWithoutSheet(e) == e.email /\ e.password /\ google_creds_json(e)

Configured(e) == e.email /\ e.password /\ google_creds_json(e) /\ e.sheet_id

(***************************************************************************)
(* State                                                                   *)
(***************************************************************************)
VARIABLES
    upstream,               \* the account's activities, most recent first
    sheet,                  \* data rows of the spreadsheet
    pc,                     \* position of main()
    runs,                   \* runs started so far
    gear_map,
    running_activities,
    existing_activity_ids,
    new_entries,
    idx,                    \* position of the loop in running_activities
    reported,               \* the count printed at the end, -1 before
    calls,                  \* network calls made by the current run
    outcome,                \* how the current run ended
    sheet0,                 \* the sheet when the current run started
    readFailed,             \* the read of the existing rows failed in this run
    gearFailed,             \* a gear step of the connect phase raised
    appendFailed,           \* an append_row call failed in this run
    missing,                \* a required variable is missing in this run
    appended,               \* rows appended by the current run
    last,                   \* what the last loop step did
    prev                    \* how the previous run ended, when it started on a
                            \* sheet with distinct ids: "completed" (with no
                            \* failure of the sheet) or "crashed" (after a
                            \* successful read); "other" otherwise

vars == <<upstream, sheet, pc, runs, gear_map, running_activities,
          existing_activity_ids, new_entries, idx, reported, calls, outcome,
          sheet0, readFailed, gearFailed, appendFailed, missing, appended, last, prev>>

locals == <<gear_map, running_activities, existing_activity_ids, new_entries, idx>>

NoStep == [kind |-> "none", gearThrew |-> FALSE, known |-> FALSE]
NoRun  == "none"

InitRows == {SheetRow(c, "running") : c \in {""} \cup {ToString(n) : n \in 1..MaxId}}

Distinct(rows) ==
    \A i, j \in 1..Len(rows) :
        (i # j /\ rows[i].c1 # "" /\ rows[j].c1 # "") => rows[i].c1 # rows[j].c1

Init ==
    /\ upstream \in SeqsUpTo(Activities, MaxActs)
    /\ sheet \in {r \in SeqsUpTo(InitRows, MaxInitRows) : Distinct(r)}
    /\ pc = "idle"
    /\ runs = 0
    /\ gear_map = <<>>
    /\ running_activities = <<>>
    /\ existing_activity_ids = {}
    /\ new_entries = 0
    /\ idx = 0
    /\ reported = -1
    /\ calls = {}
    /\ outcome = "none"
    /\ sheet0 = sheet
    /\ readFailed = FALSE
    /\ gearFailed = FALSE
    /\ appendFailed = FALSE
    /\ missing = FALSE
    /\ appended = <<>>
    /\ last = NoStep
    /\ prev = NoRun

\* The run had no failure of the sheet
Clean == ~readFailed /\ ~appendFailed

Return(how) ==
    /\ pc' = "done"
    /\ outcome' = how

(***************************************************************************)
(* main()                                                                  *)
(***************************************************************************)
\* Lines 158-179: a run starts, reads its configuration and returns when a
\* required variable is missing.
Start(e) ==
    /\ pc \in {"idle", "done", "crashed"}
    /\ runs < MaxRuns
    /\ runs' = runs + 1
    /\ prev' = IF pc = "idle" THEN NoRun
               ELSE IF outcome = "completed" /\ Clean /\ Distinct(sheet0)
                    THEN "completed"
               ELSE IF outcome = "crashed" /\ ~readFailed /\ Distinct(sheet0)
                    THEN "crashed"
               ELSE "other"
    /\ gear_map' = <<>>
    /\ running_activities' = <<>>
    /\ existing_activity_ids' = {}
    /\ new_entries' = 0
    /\ idx' = 0
    /\ reported' = -1
    /\ calls' = {}
    /\ sheet0' = sheet
    /\ readFailed' = FALSE
    /\ gearFailed' = FALSE
    /\ appendFailed' = FALSE
    /\ missing' = (~e.email \/ ~e.password \/ ~e.sheet_id \/
                    (~e.creds /\ e.file # "json"))
    /\ appended' = <<>>
    /\ last' = NoStep
    /\ IF Configured(e)
       THEN pc' = "garmin" /\ outcome' = "running"
       ELSE Return("config_error")
    /\ UNCHANGED <<upstream, sheet>>

\* Lines 181-205: login, profile number, gear catalog, all in one try whose
\* handler returns.
ConnectGarmin(login, probes, attr, gears) ==
    /\ pc = "garmin"
    /\ LET n  == get_user_profile_number(probes, attr)
           gm == build_gear_map(gears)
       IN IF ~login
          THEN /\ calls' = calls \cup {"login"}
               /\ Return("login_failed")
               /\ UNCHANGED <<gear_map, gearFailed>>
          ELSE IF n.raised
          THEN /\ calls' = calls \cup {"login", "profile"}
               /\ gearFailed' = TRUE
               /\ Return("garmin_failed")
               /\ UNCHANGED gear_map
          ELSE IF gm.raised
          THEN /\ calls' = calls \cup {"login", "profile", "get_gear"}
               /\ gearFailed' = TRUE
               /\ Return("garmin_failed")
               /\ UNCHANGED gear_map
          ELSE /\ calls' = calls \cup {"login", "profile", "get_gear"}
               /\ gear_map' = gm.map
               /\ pc' = "fetch"
               /\ UNCHANGED <<outcome, gearFailed>>
    /\ UNCHANGED <<upstream, sheet, runs, running_activities, existing_activity_ids,
                   new_entries, idx, reported, sheet0, readFailed, appendFailed, missing,
                   appended, last, prev>>

\* Lines 207-226: fetch the last 20 activities, keep the running ones,
\* return when the fetch fails or none is left.
FetchActivities(ok) ==
    /\ pc = "fetch"
    /\ calls' = calls \cup {"get_activities"}
    /\ LET activities == SubSeq(upstream, 1, Min(Len(upstream), FetchLimit))
           running    == Filter(activities)
       IN IF ~ok THEN Return("fetch_failed") /\ UNCHANGED running_activities
          ELSE IF running = <<>>
          THEN Return("no_running") /\ running_activities' = running
          ELSE /\ running_activities' = running
               /\ pc' = "sheets"
               /\ UNCHANGED outcome
    /\ UNCHANGED <<upstream, sheet, runs, gear_map, existing_activity_ids,
                   new_entries, idx, reported, sheet0, readFailed, gearFailed,
                   appendFailed, missing, appended, last, prev>>

\* Lines 228-244: credentials are parsed and the sheet opened; any failure
\* returns.
ConnectSheets(ok) ==
    /\ pc = "sheets"
    /\ calls' = calls \cup {"open_sheet"}
    /\ IF ok THEN pc' = "read" /\ UNCHANGED outcome
       ELSE Return("sheets_failed")
    /\ UNCHANGED <<upstream, sheet, runs, locals, reported, sheet0, readFailed,
                   gearFailed, appendFailed, missing, appended, last, prev>>

\* Lines 246-260: the known ids; a failed read is logged and the run goes on
\* with none.
ReadExisting(ok) ==
    /\ pc = "read"
    /\ calls' = calls \cup {"get_all_values"}
    /\ existing_activity_ids' = ExistingIds(sheet, ok)
    /\ readFailed' = ~ok
    /\ new_entries' = 0
    /\ idx' = 1
    /\ pc' = "loop"
    /\ UNCHANGED <<upstream, sheet, runs, gear_map, running_activities, reported,
                   outcome, sheet0, gearFailed, appendFailed, missing, appended, last, prev>>

\* What a loop step did; known: its activity's checked id is in the known
\* set after the step
Step(kind, gearThrew, knownAfter) ==
    [kind |-> kind, gearThrew |-> gearThrew,
     known |-> CheckedId(running_activities[idx]) \in knownAfter]

\* Lines 262-325: the path one iteration takes.  shoes is the result of
\* get_shoes_for_activity, appendOK whether append_row succeeds.
ItemKind(a, known, shoes, appendOK) ==
    IF ~Truthy(CheckedId(a)) THEN "skip_missing"
    ELSE IF AlreadyKnown(a, known) THEN "skip_known"
    ELSE IF IntRaises(RowId(a)) THEN "error_id"
    ELSE IF shoes.raised THEN "error_gear"
    ELSE IF ~appendOK THEN "error_append"
    ELSE "added"

ErrorKinds == {"error_id", "error_gear", "error_append"}

\* A faulty variant of NewEntriesAfter: the count is incremented before append_row
NewEntriesCountedEarly(n, kind) ==
    IF kind \in {"added", "error_append"} THEN n + 1 ELSE n

\* Line 320
NewEntriesAfter(n, kind) == IF kind = "added" THEN n + 1 ELSE n

\* The network calls one iteration makes
ItemCalls(kind) ==
    CASE kind \in {"skip_missing", "skip_known", "error_id"} -> {}
      [] kind = "error_gear" -> {"get_activity_gear"}
      [] OTHER -> {"get_activity_gear", "detail", "append_row"}

\* Lines 261-325: one iteration of the loop.  ag is the answer of
\* get_activity_gear, probes the answers of the detail operations, appendOK
\* whether append_row succeeds.
ProcessActivity(ag, probes, appendOK) ==
    /\ pc = "loop"
    /\ idx <= Len(running_activities)
    /\ idx' = idx + 1
    /\ LET a           == running_activities[idx]
           activity_id == RowId(a)
           shoes       == get_shoes_for_activity(ag, gear_map)
           detail      == get_activity_detail_for_gear(probes)
           shoe        == extract_shoe_from_detail(detail)
           row         == [activity_id |-> activity_id, activity_type |-> a.typeKey,
                           shoe_name |-> shoe[1], shoe_id |-> shoe[2]]
           kind        == ItemKind(a, existing_activity_ids, shoes, appendOK)
           gearThrew   == /\ kind \in {"error_gear", "error_append", "added"}
                          /\ ag.raised
                          /\ \A i \in 1..Len(probes) : probes[i].raised
       IN /\ new_entries' = NewEntriesAfter(new_entries, kind)
          /\ calls' = calls \cup ItemCalls(kind)
          /\ appendFailed' = (appendFailed \/ kind = "error_append")
          /\ IF kind = "added"
             THEN /\ sheet' = append_row(sheet, row)
                  /\ appended' = Append(appended, row)
                  /\ existing_activity_ids' = Remember(existing_activity_ids, activity_id)
                  /\ last' = Step(kind, gearThrew,
                                  Remember(existing_activity_ids, activity_id))
             ELSE /\ last' = Step(kind, gearThrew, existing_activity_ids)
                  /\ UNCHANGED <<sheet, appended, existing_activity_ids>>
    /\ UNCHANGED <<upstream, pc, runs, gear_map, running_activities, reported,
                   outcome, sheet0, readFailed, gearFailed, missing, prev>>

\* Lines 328-331: the loop is over, the count is reported
Finish ==
    /\ pc = "loop"
    /\ idx > Len(running_activities)
    /\ reported' = new_entries
    /\ Return("completed")
    /\ UNCHANGED <<upstream, sheet, runs, locals, calls, sheet0, readFailed,
                   gearFailed, appendFailed, missing, appended, last, prev>>

\* The process is killed in the loop; what it appended stays in the sheet
Crash ==
    /\ pc = "loop"
    /\ idx <= Len(running_activities)
    /\ pc' = "crashed"
    /\ outcome' = "crashed"
    /\ UNCHANGED <<upstream, sheet, runs, locals, reported, calls, sheet0,
                   readFailed, gearFailed, appendFailed, missing, appended, last, prev>>

Next ==
    \/ \E e \in Envs : Start(e)
    \/ \E login \in BOOLEAN, probes \in SeqsUpTo(ProbeResults, MaxProbes),
          attr \in {0, ProfileNumber}, gears \in GearResponses :
          ConnectGarmin(login, probes, attr, gears)
    \/ \E ok \in BOOLEAN : FetchActivities(ok)
    \/ \E ok \in BOOLEAN : ConnectSheets(ok)
    \/ \E ok \in BOOLEAN : ReadExisting(ok)
    \/ \E ag \in ActivityGearResponses, probes \in SeqsUpTo(DetailProbes, MaxProbes),
          appendOK \in BOOLEAN : ProcessActivity(ag, probes, appendOK)
    \/ Finish
    \/ Crash

Spec == Init /\ [][Next]_vars

(***************************************************************************)
(* Properties                                                              *)
(***************************************************************************)
Occurs(rows, text) == Cardinality({i \in 1..Len(rows) : rows[i].c1 = text})

Column1(rows) == {rows[i].c1 : i \in 1..Len(rows)}

WellFormed(a) == a.activityId.t = "int"

\* The running activities of the run that carry a well-formed id
Candidates == {i \in 1..Len(running_activities) : WellFormed(running_activities[i])}

CandidateIds == {running_activities[i].activityId.v : i \in Candidates}

\* The upstream list respects the data model: ids are unique per activity
UpstreamUnique ==
    \A i, j \in Candidates :
        i # j => running_activities[i].activityId # running_activities[j].activityId

\* The run went through all its phases with no failure of the sheet
CompletedClean == pc = "done" /\ outcome = "completed" /\ Clean

\* The run appended a row of its own to the sheet at some point before
AppendedBefore == \E i \in 1..Len(sheet0) : sheet0[i].activity_type = "Trail_Running"

\* C1: Dedup idempotence.  When a run completes after a completed run on the
\* same upstream list (ids unique, no failure of the sheet in either), it
\* appends no row, and every id of a fetched running activity is in column 1
\* of the sheet exactly once.
DedupIdempotence ==
    (CompletedClean /\ prev = "completed" /\ UpstreamUnique) =>
        /\ appended = <<>>
        /\ sheet = sheet0
        /\ \A id \in CandidateIds : Occurs(sheet, id) = 1

SecondRunAddsNothing ==
    /\ CompletedClean /\ prev = "completed" /\ UpstreamUnique
    /\ Cardinality(CandidateIds) = 2
    /\ AppendedBefore
    /\ appended = <<>>

\* C2: Uniqueness invariant.  No two data rows of the sheet have the same
\* activity id in column 1, whatever the upstream lists and the outcome of
\* the read of the existing rows.
UniqueActivityIds == Distinct(sheet)

\* C3: End-to-end count.  A completed run (ids unique upstream, no failure of
\* the sheet) appends a row for exactly the running activities whose id is
\* not in column 1 of the sheet at its start, and reports their number.
EndToEndCount ==
    (CompletedClean /\ UpstreamUnique) =>
        LET new == {i \in Candidates :
                       running_activities[i].activityId.v \notin Column1(sheet0)}
        IN /\ Len(appended) = Cardinality(new)
           /\ {appended[k].activity_id : k \in 1..Len(appended)} =
              {running_activities[i].activityId : i \in new}
           /\ Len(sheet) = Len(sheet0) + Cardinality(new)
           /\ reported = Cardinality(new)

\* 3 fetched, 2 of them running, 1 of those 2 in the sheet: 1 row, count 1
ThreeFetchedOneNew ==
    /\ CompletedClean /\ UpstreamUnique
    /\ Len(upstream) = 3
    /\ Len(running_activities) = 2
    /\ Cardinality(Candidates) = 2
    /\ Cardinality(CandidateIds \cap Column1(sheet0)) = 1
    /\ Len(appended) = 1
    /\ reported = 1

NoCallsWhenMisconfigured ==
    missing =>
        /\ pc = "done" /\ outcome = "config_error"
        /\ calls = {}
        /\ sheet = sheet0 /\ appended = <<>>

MisconfiguredRun == missing /\ pc = "done" /\ runs = 2 /\ Len(sheet) > 1

\* C6: Fetch error is fatal.  When the activity fetch fails or the read of
\* the existing rows fails, no row is appended in that run.
FetchErrorFatal ==
    (outcome = "fetch_failed" \/ readFailed) => appended = <<>>

\* C7: Crash recovery.  A run that completes after a run killed in its loop
\* (same upstream list, ids unique, no failure of the sheet) keeps the rows
\* the killed run appended and leaves every running activity's id in the
\* sheet exactly once.
IsPrefix(p, q) == Len(p) <= Len(q) /\ SubSeq(q, 1, Len(p)) = p

CrashRecovery ==
    /\ IsPrefix(sheet0, sheet)
    /\ (CompletedClean /\ prev = "crashed" /\ UpstreamUnique) =>
           \A id \in CandidateIds : Occurs(sheet, id) = 1

RecoveredAfterCrash ==
    /\ CompletedClean /\ prev = "crashed" /\ UpstreamUnique
    /\ AppendedBefore
    /\ appended # <<>>

\* C8: Gear-subsystem errors are never escalated.  A failure of the profile
\* lookup or of the gear catalog does not prevent the activity fetch.
GearErrorsNotEscalated ==
    (gearFailed /\ pc = "done") => "get_activities" \in calls

\* C9: Within-run duplicate rejection.  At most one row is appended for an
\* activity id in one run.
OneRowPerIdPerRun ==
    ~readFailed =>
        \A i, j \in 1..Len(appended) :
            i # j => appended[i].activity_id # appended[j].activity_id

\* C10: Per-item failure tolerance.  A failed iteration leaves its id out of
\* the known set and the count as it was, the run goes on, and the count
\* reported at the end is the number of rows appended.
PerItemTolerance ==
    /\ pc \in {"loop", "crashed"} => new_entries = Len(appended)
    /\ Len(sheet) = Len(sheet0) + Len(appended)
    /\ last.kind \in ErrorKinds =>
          /\ ~last.known
          /\ outcome \in {"running", "completed", "crashed"}
    /\ (pc = "done" /\ outcome = "completed") => reported = Len(appended)

FailedAppendThenAdded ==
    /\ pc = "done" /\ outcome = "completed"
    /\ appendFailed
    /\ last.kind = "added"
    /\ reported = 1
    /\ Len(running_activities) = 3

====
